---- MODULE Spec2Model ----
(***************************************************************************)
(* Model of the Autonomous Parking Assistant                               *)
(* (AutonomousParkingAssistant/src/ParkingUtils.cpp).                      *)
(*                                                                         *)
(* Distances are the console entries read by `cin >> value`, counted in    *)
(* hundredths of a metre: the entry 0.3 is 30, and the literals 0.1, 0.3   *)
(* and 0.5 of the source are 10, 30 and 50.  An entry and a literal with   *)
(* the same decimal text convert to the same double, so the comparisons of *)
(* the source order two-decimal entries as the integers do.                *)
(*                                                                         *)
(* A std::string is a sequence of tokens; operator+ is \o and              *)
(* string::find(t) != npos is "t is one of the tokens".                    *)
(***************************************************************************)
EXTENDS Integers, Sequences, FiniteSets, TLC

VARIABLES
    pc,                \* position of the program
    inputDomain,       \* the numeric entries the console can supply in this run
    reverseMode,       \* parkingAssistantLoop parameter
    parallel,          \* parkingAssistantLoop parameter
    s,                 \* SensorData s of the current iteration
    invalid,           \* getDoubleInput printed its "Invalid input!" line last
    step,              \* int step
    history,           \* vector<SensorData> history
    statusHistory,     \* vector<string> statusHistory
    collisionOccurred, \* bool collisionOccurred
    ret,               \* outcome of the checkSafety call of the last iteration
    out,               \* lines written to cout by the session, oldest first
    cin,               \* lines of standard input not read yet
    allowZeroArg,      \* getDoubleInput parameter allowZero
    value,             \* double value of getDoubleInput, its return value
    carLength,         \* findParkingSpace / requiredSpace parameter
    carWidth,          \* findParkingSpace / requiredSpace parameter
    numSpaces,         \* int numSpaces of findParkingSpace
    spaceNo,           \* loop index i of findParkingSpace
    required,          \* double required, the value requiredSpace returned
    space,             \* double space of the current candidate
    found,             \* return value of findParkingSpace
    exitCode           \* <<v>> once main has returned v, empty until then

\* the variables of getDoubleInput, requiredSpace and findParkingSpace run on
\* their own
scanVars == <<cin, allowZeroArg, value, carLength, carWidth, numSpaces,
              spaceNo, required, space, found>>

vars == <<pc, inputDomain, reverseMode, parallel, s, invalid, step, history,
          statusHistory, collisionOccurred, ret, out, scanVars, exitCode>>

\* the variables only parkingAssistantLoop and checkSafety use
sessionVars == <<inputDomain, reverseMode, s, step, history, statusHistory,
                 collisionOccurred, ret>>

(***************************************************************************)
(* Bounds                                                                  *)
(***************************************************************************)
\* readings a session accepts before the model stops supplying input
MaxSteps == 2

\* entries of a session: the thresholds and one value of each band, or the
\* values of the session scenarios of the tests ({0.05,0.5,0.5}, {0.4,0.4,0.4})
SessionDomains == { {10, 20, 30, 60}, {5, 40, 50} }

\* entries for the checks of the pure functions: both sides of every threshold
PureDomain == {0, 5, 10, 11, 20, 29, 30, 31, 40, 49, 50, 51, 60}

\* lines standard input holds when getDoubleInput or findParkingSpace is
\* run on its own
MaxInput == 4

\* the lines of such an input: text that is no number, -1, 0, 1.5, 2, 3, 4,
\* 5.5 and 6 (a whole number is also a valid count of spaces)
InputLines ==
    {[numeric |-> FALSE, value |-> 0]} \cup
    {[numeric |-> TRUE, value |-> v] :
        v \in {0 - 100, 0, 150, 200, 300, 400, 550, 600}}

\* lines the console supplies to the scan that main starts, apart from the
\* line that holds the count
MaxScanLines == 2

(***************************************************************************)
(* Data                                                                    *)
(***************************************************************************)
SensorData(l, c, r) == [left |-> l, center |-> c, right |-> r]

\* a console entry: text that parses as a number or not
NumEntry(v) == [numeric |-> TRUE, value |-> v]
BadEntry == [numeric |-> FALSE, value |-> 0]
Entries(dom) == {NumEntry(v) : v \in dom} \cup {NumEntry(0 - 5), BadEntry}

Line(kind, text) == [kind |-> kind, text |-> text, nums |-> <<>>]
Row(i, r, status) ==
    [kind |-> "row", text |-> status, nums |-> <<i, r.left, r.center, r.right>>]

NumLine(kind, text, nums) == [kind |-> kind, text |-> text, nums |-> nums]

NoCall == [called |-> FALSE, thrown |-> FALSE, value |-> <<>>]

\* the scan variables before findParkingSpace or getDoubleInput is entered
ScanIdle ==
    /\ cin = <<>>
    /\ allowZeroArg = TRUE
    /\ value = 0
    /\ carLength = 0
    /\ carWidth = 0
    /\ numSpaces = 0
    /\ spaceNo = 0
    /\ required = 0
    /\ space = 0
    /\ found = FALSE

\* the session variables while no session runs
SessionIdle ==
    /\ inputDomain = {}
    /\ reverseMode = FALSE
    /\ s = SensorData(0, 0, 0)
    /\ step = 0
    /\ history = <<>>
    /\ statusHistory = <<>>
    /\ collisionOccurred = FALSE
    /\ ret = NoCall

\* every input of at most n lines
Streams(n) == UNION {[1..k -> InputLines] : k \in 0..n}

Contains(str, tok) == \E i \in 1..Len(str) : str[i] = tok

(***************************************************************************)
(* getDoubleInput: the acceptance test of one entry                        *)
(***************************************************************************)
\* Accepted with zero let through whatever allowZero says
Accepted_zeroAlways(e, allowZero) ==
    e.numeric /\ e.value >= 0

Accepted(e, allowZero) ==
    e.numeric /\ (IF allowZero THEN e.value >= 0 ELSE e.value > 0)

(***************************************************************************)
(* checkSafety                                                             *)
(***************************************************************************)
RECURSIVE JoinSides(_)
JoinSides(sides) ==
    IF Len(sides) = 0 THEN <<>>
    ELSE IF Len(sides) = 1 THEN <<sides[1]>>
    ELSE <<sides[1], "+">> \o JoinSides(Tail(sides))

\* closeSides with the centre test written <= 0.3
closeSides_centerInclusive(r) ==
    (IF r.left < 30 THEN <<"LEFT">> ELSE <<>>)
    \o (IF r.center <= 30 THEN <<"CENTER">> ELSE <<>>)
    \o (IF r.right < 30 THEN <<"RIGHT">> ELSE <<>>)

closeSides(r) ==
    (IF r.left < 30 THEN <<"LEFT">> ELSE <<>>)
    \o (IF r.center < 30 THEN <<"CENTER">> ELSE <<>>)
    \o (IF r.right < 30 THEN <<"RIGHT">> ELSE <<>>)

\* checkSafety with the collision test written < 0.1
checkSafety_strictCollision(r) ==
    IF r.center < 10 \/ r.left < 10 \/ r.right < 10
    THEN [called |-> TRUE, thrown |-> TRUE,
          value |-> <<"COLLISION! STOP IMMEDIATELY!">>]
    ELSE IF closeSides(r) # <<>>
    THEN [called |-> TRUE, thrown |-> FALSE,
          value |-> <<"TOO CLOSE", "(">> \o JoinSides(closeSides(r)) \o <<")">>]
    ELSE IF r.center >= 30 /\ r.center <= 50 /\
            r.left >= 30 /\ r.left <= 50 /\
            r.right >= 30 /\ r.right <= 50
    THEN [called |-> TRUE, thrown |-> FALSE, value |-> <<"Perfectly Parked">>]
    ELSE [called |-> TRUE, thrown |-> FALSE, value |-> <<"SAFE">>]

\* checkSafety with the upper bound of the perfect range written < 0.5
checkSafety_openPerfect(r) ==
    IF r.center <= 10 \/ r.left <= 10 \/ r.right <= 10
    THEN [called |-> TRUE, thrown |-> TRUE,
          value |-> <<"COLLISION! STOP IMMEDIATELY!">>]
    ELSE IF closeSides(r) # <<>>
    THEN [called |-> TRUE, thrown |-> FALSE,
          value |-> <<"TOO CLOSE", "(">> \o JoinSides(closeSides(r)) \o <<")">>]
    ELSE IF r.center >= 30 /\ r.center < 50 /\
            r.left >= 30 /\ r.left < 50 /\
            r.right >= 30 /\ r.right < 50
    THEN [called |-> TRUE, thrown |-> FALSE, value |-> <<"Perfectly Parked">>]
    ELSE [called |-> TRUE, thrown |-> FALSE, value |-> <<"SAFE">>]

\* checkSafety with the perfect test looking at the centre sensor only
checkSafety_centerPerfect(r) ==
    IF r.center <= 10 \/ r.left <= 10 \/ r.right <= 10
    THEN [called |-> TRUE, thrown |-> TRUE,
          value |-> <<"COLLISION! STOP IMMEDIATELY!">>]
    ELSE IF closeSides(r) # <<>>
    THEN [called |-> TRUE, thrown |-> FALSE,
          value |-> <<"TOO CLOSE", "(">> \o JoinSides(closeSides(r)) \o <<")">>]
    ELSE IF r.center >= 30 /\ r.center <= 50
    THEN [called |-> TRUE, thrown |-> FALSE, value |-> <<"Perfectly Parked">>]
    ELSE [called |-> TRUE, thrown |-> FALSE, value |-> <<"SAFE">>]

\* checkSafety with a too-close bound that grows with the readings recorded
checkSafety_remembersCalls(r) ==
    IF r.center <= 10 \/ r.left <= 10 \/ r.right <= 10
    THEN [called |-> TRUE, thrown |-> TRUE,
          value |-> <<"COLLISION! STOP IMMEDIATELY!">>]
    ELSE IF r.left < 30 + Len(history) \/ r.center < 30 \/ r.right < 30
    THEN [called |-> TRUE, thrown |-> FALSE,
          value |-> <<"TOO CLOSE", "(">> \o JoinSides(closeSides(r)) \o <<")">>]
    ELSE IF r.center >= 30 /\ r.center <= 50 /\
            r.left >= 30 /\ r.left <= 50 /\
            r.right >= 30 /\ r.right <= 50
    THEN [called |-> TRUE, thrown |-> FALSE, value |-> <<"Perfectly Parked">>]
    ELSE [called |-> TRUE, thrown |-> FALSE, value |-> <<"SAFE">>]

\* checkSafety returning SAFE only when all three sensors are above 0.5
checkSafety_safeAbove50(r) ==
    IF r.center <= 10 \/ r.left <= 10 \/ r.right <= 10
    THEN [called |-> TRUE, thrown |-> TRUE,
          value |-> <<"COLLISION! STOP IMMEDIATELY!">>]
    ELSE IF closeSides(r) # <<>>
    THEN [called |-> TRUE, thrown |-> FALSE,
          value |-> <<"TOO CLOSE", "(">> \o JoinSides(closeSides(r)) \o <<")">>]
    ELSE IF r.center > 50 /\ r.left > 50 /\ r.right > 50
    THEN [called |-> TRUE, thrown |-> FALSE, value |-> <<"SAFE">>]
    ELSE [called |-> TRUE, thrown |-> FALSE, value |-> <<"Perfectly Parked">>]

checkSafety(r) ==
    IF r.center <= 10 \/ r.left <= 10 \/ r.right <= 10
    THEN [called |-> TRUE, thrown |-> TRUE,
          value |-> <<"COLLISION! STOP IMMEDIATELY!">>]
    ELSE IF closeSides(r) # <<>>
    THEN [called |-> TRUE, thrown |-> FALSE,
          value |-> <<"TOO CLOSE", "(">> \o JoinSides(closeSides(r)) \o <<")">>]
    ELSE IF r.center >= 30 /\ r.center <= 50 /\
            r.left >= 30 /\ r.left <= 50 /\
            r.right >= 30 /\ r.right <= 50
    THEN [called |-> TRUE, thrown |-> FALSE, value |-> <<"Perfectly Parked">>]
    ELSE [called |-> TRUE, thrown |-> FALSE, value |-> <<"SAFE">>]

(***************************************************************************)
(* beepAlert: the lines it writes                                          *)
(***************************************************************************)
\* beepAlert whose second beep leaves the center sensor out
beepAlert_centerIgnored(r) ==
    IF r.center < 50 \/ r.left < 50 \/ r.right < 50
    THEN << Line("beep",
                 <<"BEEP!">> \o
                 (IF r.left < 30 \/ r.right < 30
                  THEN <<"BEEP!">> ELSE <<>>)) >>
    ELSE <<>>

\* beepAlert with both bounds inclusive
beepAlert_inclusive(r) ==
    IF r.center <= 50 \/ r.left <= 50 \/ r.right <= 50
    THEN << Line("beep",
                 <<"BEEP!">> \o
                 (IF r.center <= 30 \/ r.left <= 30 \/ r.right <= 30
                  THEN <<"BEEP!">> ELSE <<>>)) >>
    ELSE <<>>

beepAlert(r) ==
    IF r.center < 50 \/ r.left < 50 \/ r.right < 50
    THEN << Line("beep",
                 <<"BEEP!">> \o
                 (IF r.center < 30 \/ r.left < 30 \/ r.right < 30
                  THEN <<"BEEP!">> ELSE <<>>)) >>
    ELSE <<>>

(***************************************************************************)
(* parkingAssistantLoop                                                    *)
(***************************************************************************)
Init ==
    /\ exitCode = <<>>
    /\ pc = "readLeft"
    /\ inputDomain \in SessionDomains
    /\ reverseMode \in BOOLEAN
    /\ parallel \in BOOLEAN
    /\ s = SensorData(0, 0, 0)
    /\ invalid = FALSE
    /\ step = 0
    /\ history = <<>>
    /\ statusHistory = <<>>
    /\ collisionOccurred = FALSE
    /\ ret = NoCall
    /\ out = << Line("rules", <<"Collision <= 0.10 m (STOP immediately)">>) >>
    /\ ScanIdle

\* getDoubleInput returning every number it reads, negative ones too
getDoubleInput_anyNumber(here, next, field) ==
    /\ pc = here
    /\ \E e \in Entries(inputDomain) :
          IF e.numeric
          THEN /\ s' = [s EXCEPT ![field] = e.value]
               /\ invalid' = FALSE
               /\ pc' = next
          ELSE /\ invalid' = TRUE
               /\ UNCHANGED <<s, pc>>
    /\ UNCHANGED <<inputDomain, reverseMode, parallel, step, history,
                   statusHistory, collisionOccurred, ret, out, scanVars,
                   exitCode>>

\* one entry given to a getDoubleInput(prompt) call of the loop (allowZero
\* defaults to true): an accepted entry is returned and stored by the caller,
\* a rejected one prints the error line and prompts again
getDoubleInput(here, next, field) ==
    /\ pc = here
    /\ \E e \in Entries(inputDomain) :
          IF Accepted(e, TRUE)
          THEN /\ s' = [s EXCEPT ![field] = e.value]
               /\ invalid' = FALSE
               /\ pc' = next
          ELSE /\ invalid' = TRUE
               /\ UNCHANGED <<s, pc>>
    /\ UNCHANGED <<inputDomain, reverseMode, parallel, step, history,
                   statusHistory, collisionOccurred, ret, out, scanVars,
                   exitCode>>

ReadLeft ==
    /\ step < MaxSteps
    /\ getDoubleInput("readLeft", "readCenter", "left")

ReadCenter == getDoubleInput("readCenter", "readRight", "center")

ReadRight == getDoubleInput("readRight", "evaluate", "right")

\* allClose with the opposite-movement branch taken in forward mode only
allClose_forwardOnly(r) ==
    ~reverseMode /\ r.left < 30 /\ r.center < 30 /\ r.right < 30

\* allClose with the opposite-movement branch never taken
allClose_disabled(r) == FALSE

\* allClose with the collision test taken first
allClose_noCollision(r) ==
    /\ r.left < 30 /\ r.center < 30 /\ r.right < 30
    /\ ~(r.left <= 10 \/ r.center <= 10 \/ r.right <= 10)

\* the test of the opposite-movement branch
allClose(r) == r.left < 30 /\ r.center < 30 /\ r.right < 30

\* oppositeMsg naming the direction of the mode itself
oppositeMsg_sameDirection ==
    IF ~reverseMode
    THEN <<"Opposite Movement", "FORWARD mode sensors close", "Move FORWARD">>
    ELSE <<"Opposite Movement", "REVERSE mode sensors close", "Move BACKWARD">>

oppositeMsg ==
    IF ~reverseMode
    THEN <<"Opposite Movement", "FORWARD mode sensors close", "Move BACKWARD">>
    ELSE <<"Opposite Movement", "REVERSE mode sensors close", "Move FORWARD">>

\* steeringLine comparing the left sensor with the center one
steeringLine_usesCenter(r) ==
    IF r.left < r.center THEN Line("steer", <<"Steer RIGHT">>)
    ELSE IF r.center < r.left THEN Line("steer", <<"Steer LEFT">>)
    ELSE Line("steer", <<"Keep centered">>)

steeringLine(r) ==
    IF r.left < r.right THEN Line("steer", <<"Steer RIGHT">>)
    ELSE IF r.right < r.left THEN Line("steer", <<"Steer LEFT">>)
    ELSE Line("steer", <<"Keep centered">>)

movementLine ==
    IF reverseMode THEN Line("move", <<"Move BACKWARD">>)
    ELSE Line("move", <<"Move FORWARD">>)

\* what every iteration does once the three sensors are read
Iteration ==
    /\ pc = "evaluate"
    /\ step' = step + 1
    /\ s' = SensorData(0, 0, 0)
    /\ UNCHANGED <<inputDomain, reverseMode, parallel, invalid, scanVars,
                   exitCode>>

\* OppositeMovement that also raises the collision flag
OppositeMovement_flagged ==
    /\ Iteration
    /\ allClose(s)
    /\ out' = out \o beepAlert(s)
                  \o << Line("opposite", oppositeMsg \o <<"and re-enter data.">>) >>
    /\ history' = Append(history, s)
    /\ statusHistory' = Append(statusHistory, oppositeMsg)
    /\ ret' = NoCall
    /\ pc' = "readLeft"
    /\ collisionOccurred' = TRUE

\* all three sensors close: record the opposite-movement message, continue
OppositeMovement ==
    /\ Iteration
    /\ allClose(s)
    /\ out' = out \o beepAlert(s)
                  \o << Line("opposite", oppositeMsg \o <<"and re-enter data.">>) >>
    /\ history' = Append(history, s)
    /\ statusHistory' = Append(statusHistory, oppositeMsg)
    /\ ret' = NoCall
    /\ pc' = "readLeft"
    /\ UNCHANGED collisionOccurred

\* StepPerfect with the break test placed after the guidance
StepPerfect_guidanceFirst ==
    /\ Iteration
    /\ ~allClose(s)
    /\ ~checkSafety(s).thrown
    /\ Contains(checkSafety(s).value, "Perfectly Parked")
    /\ ret' = checkSafety(s)
    /\ out' = out \o beepAlert(s)
                  \o << Line("status", checkSafety(s).value),
                        steeringLine(s), movementLine >>
    /\ history' = Append(history, s)
    /\ statusHistory' = Append(statusHistory, checkSafety(s).value)
    /\ pc' = "summary"
    /\ UNCHANGED collisionOccurred

\* StepPerfect without the break
StepPerfect_noBreak ==
    /\ Iteration
    /\ ~allClose(s)
    /\ ~checkSafety(s).thrown
    /\ Contains(checkSafety(s).value, "Perfectly Parked")
    /\ ret' = checkSafety(s)
    /\ out' = out \o beepAlert(s)
                  \o << Line("status", checkSafety(s).value) >>
    /\ history' = Append(history, s)
    /\ statusHistory' = Append(statusHistory, checkSafety(s).value)
    /\ pc' = "readLeft"
    /\ UNCHANGED collisionOccurred

\* checkSafety returned a status containing "Perfectly Parked": break
StepPerfect ==
    /\ Iteration
    /\ ~allClose(s)
    /\ ~checkSafety(s).thrown
    /\ Contains(checkSafety(s).value, "Perfectly Parked")
    /\ ret' = checkSafety(s)
    /\ out' = out \o beepAlert(s)
                  \o << Line("status", checkSafety(s).value) >>
    /\ history' = Append(history, s)
    /\ statusHistory' = Append(statusHistory, checkSafety(s).value)
    /\ pc' = "summary"
    /\ UNCHANGED collisionOccurred

\* StepContinue without the movement line
StepContinue_noMovement ==
    /\ Iteration
    /\ ~allClose(s)
    /\ ~checkSafety(s).thrown
    /\ ~Contains(checkSafety(s).value, "Perfectly Parked")
    /\ ret' = checkSafety(s)
    /\ out' = out \o beepAlert(s)
                  \o << Line("status", checkSafety(s).value),
                        steeringLine(s),
                        Line("separator", <<>>) >>
    /\ history' = Append(history, s)
    /\ statusHistory' = Append(statusHistory, checkSafety(s).value)
    /\ pc' = "readLeft"
    /\ UNCHANGED collisionOccurred

\* checkSafety returned any other status: guidance, next iteration
StepContinue ==
    /\ Iteration
    /\ ~allClose(s)
    /\ ~checkSafety(s).thrown
    /\ ~Contains(checkSafety(s).value, "Perfectly Parked")
    /\ ret' = checkSafety(s)
    /\ out' = out \o beepAlert(s)
                  \o << Line("status", checkSafety(s).value),
                        steeringLine(s), movementLine,
                        Line("separator", <<>>) >>
    /\ history' = Append(history, s)
    /\ statusHistory' = Append(statusHistory, checkSafety(s).value)
    /\ pc' = "readLeft"
    /\ UNCHANGED collisionOccurred

\* StepCollision with the pushes of the try block done before the throw
StepCollision_pushedTwice ==
    /\ Iteration
    /\ ~allClose(s)
    /\ checkSafety(s).thrown
    /\ ret' = checkSafety(s)
    /\ out' = out \o beepAlert(s)
                  \o << Line("what", checkSafety(s).value) >>
    /\ history' = Append(Append(history, s), s)
    /\ statusHistory' = Append(Append(statusHistory, checkSafety(s).value),
                               <<"COLLISION!">>)
    /\ collisionOccurred' = TRUE
    /\ pc' = "summary"

\* StepCollision without the break of the catch block
StepCollision_noBreak ==
    /\ Iteration
    /\ ~allClose(s)
    /\ checkSafety(s).thrown
    /\ ret' = checkSafety(s)
    /\ out' = out \o beepAlert(s)
                  \o << Line("what", checkSafety(s).value) >>
    /\ history' = Append(history, s)
    /\ statusHistory' = Append(statusHistory, <<"COLLISION!">>)
    /\ collisionOccurred' = TRUE
    /\ pc' = "readLeft"

\* StepCollision whose catch block records nothing
StepCollision_noEntry ==
    /\ Iteration
    /\ ~allClose(s)
    /\ checkSafety(s).thrown
    /\ ret' = checkSafety(s)
    /\ out' = out \o beepAlert(s)
                  \o << Line("what", checkSafety(s).value) >>
    /\ collisionOccurred' = TRUE
    /\ pc' = "summary"
    /\ UNCHANGED <<history, statusHistory>>

\* StepCollision with beepAlert called after checkSafety, inside the try block
StepCollision_beepSkipped ==
    /\ Iteration
    /\ ~allClose(s)
    /\ checkSafety(s).thrown
    /\ ret' = checkSafety(s)
    /\ out' = out \o << Line("what", checkSafety(s).value) >>
    /\ history' = Append(history, s)
    /\ statusHistory' = Append(statusHistory, <<"COLLISION!">>)
    /\ collisionOccurred' = TRUE
    /\ pc' = "summary"

\* StepCollision whose catch block leaves collisionOccurred unset
StepCollision_flagNotSet ==
    /\ Iteration
    /\ ~allClose(s)
    /\ checkSafety(s).thrown
    /\ ret' = checkSafety(s)
    /\ out' = out \o beepAlert(s)
                  \o << Line("what", checkSafety(s).value) >>
    /\ history' = Append(history, s)
    /\ statusHistory' = Append(statusHistory, <<"COLLISION!">>)
    /\ pc' = "summary"
    /\ UNCHANGED collisionOccurred

\* checkSafety threw UnsafeParkingException: the catch block
StepCollision ==
    /\ Iteration
    /\ ~allClose(s)
    /\ checkSafety(s).thrown
    /\ ret' = checkSafety(s)
    /\ out' = out \o beepAlert(s)
                  \o << Line("what", checkSafety(s).value) >>
    /\ history' = Append(history, s)
    /\ statusHistory' = Append(statusHistory, <<"COLLISION!">>)
    /\ collisionOccurred' = TRUE
    /\ pc' = "summary"

\* summaryRows numbering the rows from 0
summaryRows_zeroBased ==
    [i \in 1..Len(history) |-> Row(i - 1, history[i], statusHistory[i])]

\* after the loop: the summary table and the final message
summaryRows == [i \in 1..Len(history) |-> Row(i, history[i], statusHistory[i])]

\* Summary that prints the success message whatever the flag
Summary_alwaysSuccess ==
    /\ pc = "summary"
    /\ out' = out \o << Line("summary", <<"Parking Summary:">>) >>
                  \o summaryRows
                  \o << Line("final", <<"Parking simulation completed successfully.">>) >>
    /\ pc' = "done"
    /\ UNCHANGED <<inputDomain, reverseMode, parallel, s, invalid, step,
                   history, statusHistory, collisionOccurred, ret, scanVars,
                   exitCode>>

\* the summary and the final message, written once the loop is left
Summary ==
    /\ pc = "summary"
    /\ out' = out \o << Line("summary", <<"Parking Summary:">>) >>
                  \o summaryRows
                  \o << IF collisionOccurred
                        THEN Line("final", <<"Parking simulation ended due to collision.">>)
                        ELSE Line("final", <<"Parking simulation completed successfully.">>) >>
    /\ pc' = "done"
    /\ UNCHANGED <<inputDomain, reverseMode, parallel, s, invalid, step,
                   history, statusHistory, collisionOccurred, ret, scanVars,
                   exitCode>>

Next ==
    \/ ReadLeft
    \/ ReadCenter
    \/ ReadRight
    \/ OppositeMovement
    \/ StepPerfect
    \/ StepContinue
    \/ StepCollision
    \/ Summary

Spec == Init /\ [][Next]_vars

(***************************************************************************)
(* checkSafety on its own: one call on any reading of PureDomain           *)
(***************************************************************************)
InitCheckSafety ==
    /\ exitCode = <<>>
    /\ pc = "callCheckSafety"
    /\ s \in {SensorData(l, c, r) : l \in PureDomain, c \in PureDomain, r \in PureDomain}
    /\ inputDomain = PureDomain
    /\ reverseMode = FALSE
    /\ parallel = FALSE
    /\ invalid = FALSE
    /\ step = 0
    /\ history = <<>>
    /\ statusHistory = <<>>
    /\ collisionOccurred = FALSE
    /\ ret = NoCall
    /\ out = <<>>
    /\ ScanIdle

CallCheckSafety ==
    /\ pc = "callCheckSafety"
    /\ ret' = checkSafety(s)
    /\ pc' = "returned"
    /\ UNCHANGED <<inputDomain, reverseMode, parallel, s, invalid, step, history,
                   statusHistory, collisionOccurred, out, scanVars,
                   exitCode>>

NextCheckSafety == CallCheckSafety

SpecCheckSafety == InitCheckSafety /\ [][NextCheckSafety]_vars

(***************************************************************************)
(* getDoubleInput on its own, reading standard input line by line          *)
(***************************************************************************)
InitGetDoubleInput ==
    /\ exitCode = <<>>
    /\ pc = "getDoubleInput"
    /\ cin \in Streams(MaxInput)
    /\ allowZeroArg \in BOOLEAN
    /\ parallel = FALSE
    /\ invalid = FALSE
    /\ out = <<>>
    /\ value = 0
    /\ carLength = 0
    /\ carWidth = 0
    /\ numSpaces = 0
    /\ spaceNo = 0
    /\ required = 0
    /\ space = 0
    /\ found = FALSE
    /\ SessionIdle

invalidLine(allow) ==
    Line("invalid", <<"Invalid input!",
                      IF allow THEN "Please enter a number 0 or greater."
                      ELSE "Please enter a number greater than 0.">>)

\* GdiRead without cin.clear() and cin.ignore(): text that is no number stays
\* in the input
GdiRead_noIgnore ==
    /\ pc = "getDoubleInput"
    /\ cin # <<>>
    /\ value' = IF Head(cin).numeric THEN Head(cin).value ELSE 0
    /\ IF Accepted(Head(cin), allowZeroArg)
       THEN /\ cin' = Tail(cin)
            /\ invalid' = FALSE
            /\ out' = Append(out, Line("prompt", <<>>))
            /\ pc' = "gdiReturned"
       ELSE /\ cin' = IF Head(cin).numeric THEN Tail(cin) ELSE cin
            /\ invalid' = TRUE
            /\ out' = out \o << Line("prompt", <<>>), invalidLine(allowZeroArg) >>
            /\ pc' = "getDoubleInput"
    /\ UNCHANGED <<parallel, allowZeroArg, carLength, carWidth, numSpaces,
                   spaceNo, required, space, found, sessionVars,
                   exitCode>>

\* one pass of while (true): prompt, cin >> value on the next line, then
\* return the value or print the error, clear and ignore the line
GdiRead ==
    /\ pc = "getDoubleInput"
    /\ cin # <<>>
    /\ value' = IF Head(cin).numeric THEN Head(cin).value ELSE 0
    /\ cin' = Tail(cin)
    /\ IF Accepted(Head(cin), allowZeroArg)
       THEN /\ invalid' = FALSE
            /\ out' = Append(out, Line("prompt", <<>>))
            /\ pc' = "gdiReturned"
       ELSE /\ invalid' = TRUE
            /\ out' = out \o << Line("prompt", <<>>), invalidLine(allowZeroArg) >>
            /\ pc' = "getDoubleInput"
    /\ UNCHANGED <<parallel, allowZeroArg, carLength, carWidth, numSpaces,
                   spaceNo, required, space, found, sessionVars,
                   exitCode>>

\* the input is at its end: cin >> value fails on every pass, the loop
\* prompts and prints the error without end
GdiEof ==
    /\ pc = "getDoubleInput"
    /\ cin = <<>>
    /\ invalid' = TRUE
    /\ out' = out \o << Line("prompt", <<>>), invalidLine(allowZeroArg) >>
    /\ pc' = "promptsForEver"
    /\ UNCHANGED <<parallel, scanVars, sessionVars, exitCode>>

NextGetDoubleInput == GdiRead \/ GdiEof

\* the program runs on: a pass of the loop that can be made is made
SpecGetDoubleInput ==
    InitGetDoubleInput /\ [][NextGetDoubleInput]_vars /\ WF_vars(NextGetDoubleInput)

(***************************************************************************)
(* requiredSpace.  Lengths are hundredths of a metre like the distances;   *)
(* 1.0 is 100 and 0.5 is 50.  The entries used are multiples of 0.1 m up   *)
(* to 10 m: for those the double sum x + 1.0 or x + 0.5 is the double of   *)
(* the decimal sum, so the integers compare as the doubles do.             *)
(***************************************************************************)
\* requiredSpace with the two dimensions exchanged
requiredSpace_dimensionsSwapped(par, len, wid) ==
    IF par THEN wid + 100 ELSE len + 50

requiredSpace(par, len, wid) ==
    IF par THEN len + 100 ELSE wid + 50

\* car lengths and widths for requiredSpace on its own
LengthDomain == {300, 350, 400, 450, 500, 550}
WidthDomain == {150, 160, 170, 180, 200}

InitRequiredSpace ==
    /\ exitCode = <<>>
    /\ pc = "callRequiredSpace"
    /\ parallel \in BOOLEAN
    /\ carLength \in LengthDomain
    /\ carWidth \in WidthDomain
    /\ cin = <<>>
    /\ allowZeroArg = TRUE
    /\ value = 0
    /\ numSpaces = 0
    /\ spaceNo = 0
    /\ required = 0
    /\ space = 0
    /\ found = FALSE
    /\ invalid = FALSE
    /\ out = <<>>
    /\ SessionIdle

CallRequiredSpace ==
    /\ pc = "callRequiredSpace"
    /\ required' = requiredSpace(parallel, carLength, carWidth)
    /\ pc' = "requiredSpaceReturned"
    /\ UNCHANGED <<parallel, invalid, out, cin, allowZeroArg, value, carLength,
                   carWidth, numSpaces, spaceNo, space, found, sessionVars,
                   exitCode>>

NextRequiredSpace == CallRequiredSpace

SpecRequiredSpace == InitRequiredSpace /\ [][NextRequiredSpace]_vars

(***************************************************************************)
(* findParkingSpace on its own, reading standard input line by line        *)
(***************************************************************************)
\* cin >> numSpaces on the text of a number: the digits up to the decimal
\* point are the count, a fraction stays in the input as the next entry
IntPart(v) == IF v >= 0 THEN v \div 100 ELSE 0 - ((0 - v) \div 100)
Fraction(v) == (IF v >= 0 THEN v ELSE 0 - v) % 100

\* the cars of the scans: those of the tests
Cars == { <<450, 180>>, <<300, 200>> }

InitFindParkingSpace ==
    /\ exitCode = <<>>
    /\ pc = "readCount"
    /\ cin \in Streams(MaxInput)
    /\ parallel \in BOOLEAN
    /\ \E car \in Cars : carLength = car[1] /\ carWidth = car[2]
    /\ allowZeroArg = TRUE
    /\ value = 0
    /\ numSpaces = 0
    /\ spaceNo = 0
    /\ required = 0
    /\ space = 0
    /\ found = FALSE
    /\ invalid = FALSE
    /\ out = << Line("countPrompt", <<"Enter number of parking spaces to scan:">>) >>
    /\ SessionIdle

\* FpsReadCount asking again for a negative count
FpsReadCount_negativeRetry ==
    /\ pc = "readCount"
    /\ cin # <<>>
    /\ IF ~Head(cin).numeric
       THEN /\ numSpaces' = 0
            /\ cin' = Tail(cin)
            /\ out' = Append(out, Line("invalidCount", <<"Enter a valid integer.">>))
            /\ UNCHANGED <<pc, required, spaceNo, found>>
       ELSE /\ numSpaces' = IntPart(Head(cin).value)
            /\ cin' = IF Fraction(Head(cin).value) = 0 THEN Tail(cin)
                      ELSE <<NumEntry(Fraction(Head(cin).value))>> \o Tail(cin)
            /\ IF IntPart(Head(cin).value) = 0
               THEN /\ out' = Append(out, Line("noSpace",
                                 <<"Parking space not available. Please wait for some time.">>))
                    /\ found' = FALSE
                    /\ pc' = "fpsReturned"
                    /\ UNCHANGED <<required, spaceNo>>
               ELSE IF IntPart(Head(cin).value) < 0
               THEN /\ out' = Append(out, Line("negativeCount",
                                 <<"Number of spaces cannot be negative.">>))
                    /\ UNCHANGED <<pc, found, required, spaceNo>>
               ELSE /\ required' = requiredSpace(parallel, carLength, carWidth)
                    /\ spaceNo' = 1
                    /\ pc' = "readSpace"
                    /\ UNCHANGED <<out, found>>
    /\ UNCHANGED <<parallel, invalid, allowZeroArg, value, carLength, carWidth,
                   space, sessionVars,
                   exitCode>>

\* one cin >> numSpaces: text that is no number is answered with the error
\* line and read again; a count of 0 or below returns false; otherwise the
\* required space is computed and the loop over the spaces is entered
FpsReadCount ==
    /\ pc = "readCount"
    /\ cin # <<>>
    /\ IF ~Head(cin).numeric
       THEN /\ numSpaces' = 0
            /\ cin' = Tail(cin)
            /\ out' = Append(out, Line("invalidCount", <<"Enter a valid integer.">>))
            /\ UNCHANGED <<pc, required, spaceNo, found>>
       ELSE /\ numSpaces' = IntPart(Head(cin).value)
            /\ cin' = IF Fraction(Head(cin).value) = 0 THEN Tail(cin)
                      ELSE <<NumEntry(Fraction(Head(cin).value))>> \o Tail(cin)
            /\ IF IntPart(Head(cin).value) = 0
               THEN /\ out' = Append(out, Line("noSpace",
                                 <<"Parking space not available. Please wait for some time.">>))
                    /\ found' = FALSE
                    /\ pc' = "fpsReturned"
                    /\ UNCHANGED <<required, spaceNo>>
               ELSE IF IntPart(Head(cin).value) < 0
               THEN /\ out' = Append(out, Line("negativeCount",
                                 <<"Number of spaces cannot be negative.">>))
                    /\ found' = FALSE
                    /\ pc' = "fpsReturned"
                    /\ UNCHANGED <<required, spaceNo>>
               ELSE /\ required' = requiredSpace(parallel, carLength, carWidth)
                    /\ spaceNo' = 1
                    /\ pc' = "readSpace"
                    /\ UNCHANGED <<out, found>>
    /\ UNCHANGED <<parallel, invalid, allowZeroArg, value, carLength, carWidth,
                   space, sessionVars,
                   exitCode>>

\* FpsReadSpace whose loop runs for one space more than the count
FpsReadSpace_extraSpace ==
    /\ pc = "readSpace"
    /\ cin # <<>>
    /\ cin' = Tail(cin)
    /\ value' = IF Head(cin).numeric THEN Head(cin).value ELSE 0
    /\ IF ~Accepted(Head(cin), TRUE)
       THEN /\ invalid' = TRUE
            /\ out' = out \o << NumLine("sizePrompt", <<>>, <<spaceNo>>),
                                invalidLine(TRUE) >>
            /\ UNCHANGED <<pc, space, spaceNo, found>>
       ELSE /\ invalid' = FALSE
            /\ space' = Head(cin).value
            /\ IF Head(cin).value >= required
               THEN /\ out' = out \o << NumLine("sizePrompt", <<>>, <<spaceNo>>),
                                        NumLine("found", <<"Space found!">>,
                                                <<Head(cin).value>>) >>
                    /\ found' = TRUE
                    /\ pc' = "fpsReturned"
                    /\ spaceNo' = spaceNo
               ELSE /\ out' = out \o << NumLine("sizePrompt", <<>>, <<spaceNo>>),
                                        NumLine("tooSmall", <<"Space too small">>,
                                                <<Head(cin).value>>) >>
                    /\ spaceNo' = spaceNo + 1
                    /\ found' = FALSE
                    /\ pc' = IF spaceNo <= numSpaces
                             THEN "readSpace" ELSE "fpsReturned"
    /\ UNCHANGED <<parallel, allowZeroArg, carLength, carWidth, numSpaces,
                   required, sessionVars,
                   exitCode>>

\* FpsReadSpace with the size test written space > required
FpsReadSpace_strict ==
    /\ pc = "readSpace"
    /\ cin # <<>>
    /\ cin' = Tail(cin)
    /\ value' = IF Head(cin).numeric THEN Head(cin).value ELSE 0
    /\ IF ~Accepted(Head(cin), TRUE)
       THEN /\ invalid' = TRUE
            /\ out' = out \o << NumLine("sizePrompt", <<>>, <<spaceNo>>),
                                invalidLine(TRUE) >>
            /\ UNCHANGED <<pc, space, spaceNo, found>>
       ELSE /\ invalid' = FALSE
            /\ space' = Head(cin).value
            /\ IF Head(cin).value > required
               THEN /\ out' = out \o << NumLine("sizePrompt", <<>>, <<spaceNo>>),
                                        NumLine("found", <<"Space found!">>,
                                                <<Head(cin).value>>) >>
                    /\ found' = TRUE
                    /\ pc' = "fpsReturned"
                    /\ spaceNo' = spaceNo
               ELSE /\ out' = out \o << NumLine("sizePrompt", <<>>, <<spaceNo>>),
                                        NumLine("tooSmall", <<"Space too small">>,
                                                <<Head(cin).value>>) >>
                    /\ spaceNo' = spaceNo + 1
                    /\ found' = FALSE
                    /\ pc' = IF spaceNo + 1 <= numSpaces
                             THEN "readSpace" ELSE "fpsReturned"
    /\ UNCHANGED <<parallel, allowZeroArg, carLength, carWidth, numSpaces,
                   required, sessionVars,
                   exitCode>>

\* FpsReadSpace that notes a fitting space and scans on to the last one
FpsReadSpace_scansOn ==
    /\ pc = "readSpace"
    /\ cin # <<>>
    /\ cin' = Tail(cin)
    /\ value' = IF Head(cin).numeric THEN Head(cin).value ELSE 0
    /\ IF ~Accepted(Head(cin), TRUE)
       THEN /\ invalid' = TRUE
            /\ out' = out \o << NumLine("sizePrompt", <<>>, <<spaceNo>>),
                                invalidLine(TRUE) >>
            /\ UNCHANGED <<pc, space, spaceNo, found>>
       ELSE /\ invalid' = FALSE
            /\ space' = Head(cin).value
            /\ IF Head(cin).value >= required
               THEN /\ out' = out \o << NumLine("sizePrompt", <<>>, <<spaceNo>>),
                                        NumLine("found", <<"Space found!">>,
                                                <<Head(cin).value>>) >>
                    /\ found' = TRUE
                    /\ pc' = IF spaceNo + 1 <= numSpaces
                             THEN "readSpace" ELSE "fpsReturned"
                    /\ spaceNo' = spaceNo + 1
               ELSE /\ out' = out \o << NumLine("sizePrompt", <<>>, <<spaceNo>>),
                                        NumLine("tooSmall", <<"Space too small">>,
                                                <<Head(cin).value>>) >>
                    /\ spaceNo' = spaceNo + 1
                    /\ found' = found
                    /\ pc' = IF spaceNo + 1 <= numSpaces
                             THEN "readSpace" ELSE "fpsReturned"
    /\ UNCHANGED <<parallel, allowZeroArg, carLength, carWidth, numSpaces,
                   required, sessionVars,
                   exitCode>>

\* one pass of getDoubleInput("Enter size of space i") inside the for loop: a
\* rejected line is asked again; an accepted one is the size of space i, which
\* ends the scan with true if it is large enough and moves on to space i + 1
\* otherwise, returning false after the last space
FpsReadSpace ==
    /\ pc = "readSpace"
    /\ cin # <<>>
    /\ cin' = Tail(cin)
    /\ value' = IF Head(cin).numeric THEN Head(cin).value ELSE 0
    /\ IF ~Accepted(Head(cin), TRUE)
       THEN /\ invalid' = TRUE
            /\ out' = out \o << NumLine("sizePrompt", <<>>, <<spaceNo>>),
                                invalidLine(TRUE) >>
            /\ UNCHANGED <<pc, space, spaceNo, found>>
       ELSE /\ invalid' = FALSE
            /\ space' = Head(cin).value
            /\ IF Head(cin).value >= required
               THEN /\ out' = out \o << NumLine("sizePrompt", <<>>, <<spaceNo>>),
                                        NumLine("found", <<"Space found!">>,
                                                <<Head(cin).value>>) >>
                    /\ found' = TRUE
                    /\ pc' = "fpsReturned"
                    /\ spaceNo' = spaceNo
               ELSE /\ out' = out \o << NumLine("sizePrompt", <<>>, <<spaceNo>>),
                                        NumLine("tooSmall", <<"Space too small">>,
                                                <<Head(cin).value>>) >>
                    /\ spaceNo' = spaceNo + 1
                    /\ found' = FALSE
                    /\ pc' = IF spaceNo + 1 <= numSpaces
                             THEN "readSpace" ELSE "fpsReturned"
    /\ UNCHANGED <<parallel, allowZeroArg, carLength, carWidth, numSpaces,
                   required, sessionVars,
                   exitCode>>

\* the input is at its end: the read in progress fails on every pass and the
\* loop around it does not end
FpsEof ==
    /\ pc \in {"readCount", "readSpace"}
    /\ cin = <<>>
    /\ invalid' = TRUE
    /\ out' = Append(out, IF pc = "readCount"
                          THEN Line("invalidCount", <<"Enter a valid integer.">>)
                          ELSE invalidLine(TRUE))
    /\ pc' = "promptsForEver"
    /\ UNCHANGED <<parallel, scanVars, sessionVars, exitCode>>

NextFindParkingSpace == FpsReadCount \/ FpsReadSpace \/ FpsEof

SpecFindParkingSpace == InitFindParkingSpace /\ [][NextFindParkingSpace]_vars

(***************************************************************************)
(* beepAlert on its own, for any reading                                   *)
(***************************************************************************)
InitBeepAlert ==
    /\ exitCode = <<>>
    /\ pc = "callBeepAlert"
    /\ s \in {SensorData(l, c, r) : l \in PureDomain, c \in PureDomain, r \in PureDomain}
    /\ inputDomain = PureDomain
    /\ reverseMode = FALSE
    /\ parallel = FALSE
    /\ invalid = FALSE
    /\ step = 0
    /\ history = <<>>
    /\ statusHistory = <<>>
    /\ collisionOccurred = FALSE
    /\ ret = NoCall
    /\ out = <<>>
    /\ ScanIdle

CallBeepAlert ==
    /\ pc = "callBeepAlert"
    /\ out' = out \o beepAlert(s)
    /\ pc' = "beepAlertReturned"
    /\ UNCHANGED <<inputDomain, reverseMode, parallel, s, invalid, step, history,
                   statusHistory, collisionOccurred, ret, scanVars,
                   exitCode>>

NextBeepAlert == CallBeepAlert

SpecBeepAlert == InitBeepAlert /\ [][NextBeepAlert]_vars

(***************************************************************************)
(* main (AutonomousParkingAssistant/src/main.cpp): the dimensions of the   *)
(* car, the two choices, the scan, the session                             *)
(***************************************************************************)
\* entries the console gives to main: for a dimension, for a choice, for
\* the scan, and the entries of the session that main starts
DimensionEntries(dims) == {NumEntry(v) : v \in dims} \cup {NumEntry(0), BadEntry}
Choices == {"P", "p", "T", "t", "F", "f", "R", "r", "x"}
MainLines == {BadEntry, NumEntry(0 - 100), NumEntry(0), NumEntry(200), NumEntry(600)}
MainDomains == { {5, 40, 50}, {60} }

InitMain ==
    /\ pc = "readCarLength"
    /\ out = << Line("header", <<"=== Autonomous Parking Assistant ===">>) >>
    /\ parallel = FALSE
    /\ invalid = FALSE
    /\ ScanIdle
    /\ SessionIdle
    /\ exitCode = <<>>

\* getDoubleInput("Enter your car length (m): ", false), one entry
MainReadLength ==
    /\ pc = "readCarLength"
    /\ \E e \in DimensionEntries({car[1] : car \in Cars}) :
          IF Accepted(e, FALSE)
          THEN /\ carLength' = e.value
               /\ invalid' = FALSE
               /\ pc' = "readCarWidth"
          ELSE /\ invalid' = TRUE
               /\ UNCHANGED <<carLength, pc>>
    /\ UNCHANGED <<parallel, out, cin, allowZeroArg, value, carWidth, numSpaces,
                   spaceNo, required, space, found, sessionVars, exitCode>>

\* getDoubleInput("Enter your car width (m): ", false), one entry
MainReadWidth ==
    /\ pc = "readCarWidth"
    /\ \E e \in DimensionEntries({car[2] : car \in Cars}) :
          IF Accepted(e, FALSE)
          THEN /\ carWidth' = e.value
               /\ invalid' = FALSE
               /\ pc' = "readType"
          ELSE /\ invalid' = TRUE
               /\ UNCHANGED <<carWidth, pc>>
    /\ UNCHANGED <<parallel, out, cin, allowZeroArg, value, carLength, numSpaces,
                   spaceNo, required, space, found, sessionVars, exitCode>>

\* one pass of the loop that reads typeChoice
MainReadType ==
    /\ pc = "readType"
    /\ \E typeChoice \in Choices :
          IF typeChoice \in {"P", "p", "T", "t"}
          THEN /\ parallel' = (typeChoice \in {"P", "p"})
               /\ invalid' = FALSE
               /\ pc' = "readMode"
          ELSE /\ invalid' = TRUE
               /\ UNCHANGED <<parallel, pc>>
    /\ UNCHANGED <<out, scanVars, sessionVars, exitCode>>

\* one pass of the loop that reads modeChoice; with a valid choice main goes
\* on to call findParkingSpace, which prints its first prompt
MainReadMode ==
    /\ pc = "readMode"
    /\ \E modeChoice \in Choices :
          IF modeChoice \in {"F", "f", "R", "r"}
          THEN /\ reverseMode' = (modeChoice \in {"R", "r"})
               /\ invalid' = FALSE
               /\ out' = Append(out, Line("countPrompt",
                                    <<"Enter number of parking spaces to scan:">>))
               /\ pc' = "readCount"
          ELSE /\ invalid' = TRUE
               /\ UNCHANGED <<reverseMode, out, pc>>
    /\ UNCHANGED <<parallel, inputDomain, s, step, history, statusHistory,
                   collisionOccurred, ret, scanVars, exitCode>>

\* the input ends before the scan: a getDoubleInput call fails on every
\* pass; a choice is read from a char that was never written, so it may hold
\* any value, and the reads that follow fail as well
MainEof ==
    /\ pc \in {"readCarLength", "readCarWidth", "readType", "readMode"}
    /\ invalid' = TRUE
    /\ pc' = "promptsForEver"
    /\ parallel' \in (IF pc = "readType" THEN BOOLEAN ELSE {parallel})
    /\ reverseMode' \in (IF pc \in {"readType", "readMode"} THEN BOOLEAN
                         ELSE {reverseMode})
    /\ UNCHANGED <<inputDomain, s, step, history, statusHistory,
                   collisionOccurred, ret, out, scanVars, exitCode>>

\* the lines the scan has read but for the count itself
ScanReads ==
    Cardinality({i \in 1..Len(out) : out[i].kind \in {"invalidCount", "sizePrompt"}})

\* the console supplies the line findParkingSpace is waiting for
ConsoleLine ==
    /\ pc \in {"readCount", "readSpace"}
    /\ cin = <<>>
    /\ ScanReads < MaxScanLines
    /\ \E e \in MainLines : cin' = <<e>>
    /\ UNCHANGED <<pc, parallel, invalid, out, allowZeroArg, value, carLength,
                   carWidth, numSpaces, spaceNo, required, space, found,
                   sessionVars, exitCode>>

\* MainAfterScan calling the loop whatever the scan returned
MainAfterScan_ungated ==
    /\ pc = "fpsReturned"
    /\ pc' = "readLeft"
    /\ out' = Append(out, Line("rules", <<"Collision <= 0.10 m (STOP immediately)">>))
    /\ inputDomain' \in MainDomains
    /\ UNCHANGED exitCode
    /\ UNCHANGED <<parallel, invalid, reverseMode, s, step, history,
                   statusHistory, collisionOccurred, ret, scanVars>>

\* if (!findParkingSpace(...)) return 0; parkingAssistantLoop(...) up to its
\* first read
MainAfterScan ==
    /\ pc = "fpsReturned"
    /\ IF found
       THEN /\ pc' = "readLeft"
            /\ out' = Append(out, Line("rules",
                                 <<"Collision <= 0.10 m (STOP immediately)">>))
            /\ inputDomain' \in MainDomains
            /\ UNCHANGED exitCode
       ELSE /\ pc' = "exited"
            /\ exitCode' = <<0>>
            /\ UNCHANGED <<out, inputDomain>>
    /\ UNCHANGED <<parallel, invalid, reverseMode, s, step, history,
                   statusHistory, collisionOccurred, ret, scanVars>>

\* an allocation of the iteration fails (history.push_back and the strings
\* of checkSafety allocate): std::bad_alloc leaves parkingAssistantLoop and
\* is caught in main, which prints the error and goes on to return 0
MainCatch ==
    /\ pc = "evaluate"
    /\ step' = step + 1
    /\ out' = out \o beepAlert(s) \o << Line("error", <<"Error:", "std::bad_alloc">>) >>
    /\ pc' = "exited"
    /\ exitCode' = <<0>>
    /\ UNCHANGED <<parallel, invalid, inputDomain, reverseMode, s, history,
                   statusHistory, collisionOccurred, ret, scanVars>>

\* parkingAssistantLoop returned: return 0
MainReturn ==
    /\ pc = "done"
    /\ pc' = "exited"
    /\ exitCode' = <<0>>
    /\ UNCHANGED <<parallel, invalid, out, scanVars, sessionVars>>

NextMain ==
    \/ MainReadLength
    \/ MainReadWidth
    \/ MainReadType
    \/ MainReadMode
    \/ MainEof
    \/ ConsoleLine
    \/ FpsReadCount
    \/ FpsReadSpace
    \/ FpsEof
    \/ MainAfterScan
    \/ ReadLeft
    \/ ReadCenter
    \/ ReadRight
    \/ OppositeMovement
    \/ StepPerfect
    \/ StepContinue
    \/ StepCollision
    \/ Summary
    \/ MainCatch
    \/ MainReturn

SpecMain == InitMain /\ [][NextMain]_vars

(***************************************************************************)
(* Properties                                                              *)
(***************************************************************************)
Last(q) == q[Len(q)]

\* the lines a step adds to the output
NewLines == SubSeq(out', Len(out) + 1, Len(out'))

CountKind(lines, k) == Cardinality({i \in 1..Len(lines) : lines[i].kind = k})

CollisionEnd == Line("final", <<"Parking simulation ended due to collision.">>)
SuccessEnd == Line("final", <<"Parking simulation completed successfully.">>)

Stopped == pc \in {"summary", "done"}
Running == pc \in {"readLeft", "readCenter", "readRight", "evaluate"}

SomeAtMost10(r) == r.left <= 10 \/ r.center <= 10 \/ r.right <= 10
SomeBelow30(r) == r.left < 30 \/ r.center < 30 \/ r.right < 30
AllBelow30(r) == r.left < 30 /\ r.center < 30 /\ r.right < 30
AllIn30To50(r) ==
    /\ 30 <= r.left /\ r.left <= 50
    /\ 30 <= r.center /\ r.center <= 50
    /\ 30 <= r.right /\ r.right <= 50

IsCollision(o) == o.called /\ o.thrown
IsTooClose(o) == o.called /\ ~o.thrown /\ Len(o.value) > 0 /\ o.value[1] = "TOO CLOSE"
IsPerfect(o) == o.called /\ ~o.thrown /\ o.value = <<"Perfectly Parked">>
IsSafe(o) == o.called /\ ~o.thrown /\ o.value = <<"SAFE">>

\* C1: in a session every accepted reading with a sensor <= 0.10 m is
\* recorded as COLLISION!, is the last reading accepted and ends the session
\* as a collision, whatever the other two sensors read.
C1_CollisionReadingStops ==
    \A i \in 1..Len(history) :
        SomeAtMost10(history[i]) =>
            /\ statusHistory[i] = <<"COLLISION!">>
            /\ i = Len(history)
            /\ Stopped
            /\ collisionOccurred

\* C2: checkSafety signals Collision (throws) for every reading with a sensor
\* <= 0.1, whatever the other two sensors read.
C2_CollisionDominates ==
    (pc = "returned" /\ SomeAtMost10(s)) =>
        (ret.called /\ ret.thrown /\ ret.value = <<"COLLISION! STOP IMMEDIATELY!">>)

C2_Witness ==
    pc = "returned" /\ s = SensorData(40, 10, 20) /\ ret.thrown

\* C3: for a reading with no sensor <= 0.1 and some sensor < 0.3, checkSafety
\* returns TOO CLOSE naming exactly the sides below 0.3, in the order LEFT,
\* CENTER, RIGHT.
SideDistance(r, side) ==
    IF side = "LEFT" THEN r.left ELSE IF side = "CENTER" THEN r.center ELSE r.right

NamedSides(str) == SelectSeq(str, LAMBDA tok : tok \in {"LEFT", "CENTER", "RIGHT"})

SidesBelow30(r) ==
    SelectSeq(<<"LEFT", "CENTER", "RIGHT">>, LAMBDA side : SideDistance(r, side) < 30)

C3_TooCloseNamesSides ==
    (pc = "returned" /\ ~SomeAtMost10(s) /\ SomeBelow30(s)) =>
        /\ IsTooClose(ret)
        /\ NamedSides(ret.value) = SidesBelow30(s)

C3_Witness ==
    /\ pc = "returned"
    /\ s = SensorData(20, 30, 29)
    /\ ret.value = <<"TOO CLOSE", "(", "LEFT", "+", "RIGHT", ")">>

\* C4: checkSafety returns Perfectly Parked exactly when all three sensors are
\* in the closed interval [0.3, 0.5].
C4_PerfectIffAllInRange ==
    pc = "returned" => (IsPerfect(ret) <=> AllIn30To50(s))

C4_Witness ==
    pc = "returned" /\ s = SensorData(30, 50, 40) /\ IsPerfect(ret)

C6_CollisionStep ==
    /\ (pc = "evaluate" /\ ret'.called /\ ret'.thrown) =>
          /\ history' = Append(history, s)
          /\ statusHistory' = Append(statusHistory, <<"COLLISION!">>)
          /\ pc' = "summary"
          /\ collisionOccurred'
    /\ (pc = "summary" /\ collisionOccurred) =>
          /\ pc' = "done"
          /\ UNCHANGED <<history, statusHistory>>
          /\ Last(out') = CollisionEnd
    /\ (pc = "evaluate" /\ step = 0 /\ s = SensorData(5, 50, 50)) =>
          (ret'.called /\ ret'.thrown)
    /\ (pc' = "done" /\ history'[1] = SensorData(5, 50, 50)) =>
          (Len(history') = 1 /\ Last(out') = CollisionEnd)

C6_CollisionTerminates == [][C6_CollisionStep]_vars

C6_Witness ==
    /\ pc = "done"
    /\ history = <<SensorData(5, 50, 50)>>
    /\ statusHistory = << <<"COLLISION!">> >>
    /\ Last(out) = CollisionEnd

\* C7: a reading with all three sensors in [0.3, 0.5] adds exactly one history
\* entry, with the Perfectly Parked status, and stops the session as parked
\* without a steering or movement suggestion; a session whose first reading is
\* {0.4, 0.4, 0.4} ends with one history entry and the success message.
C7_PerfectStep ==
    /\ (pc = "evaluate" /\ AllIn30To50(s)) =>
          /\ history' = Append(history, s)
          /\ statusHistory' = Append(statusHistory, <<"Perfectly Parked">>)
          /\ pc' = "summary"
          /\ ~collisionOccurred'
          /\ CountKind(NewLines, "steer") = 0
          /\ CountKind(NewLines, "move") = 0
    /\ (pc = "summary" /\ ~collisionOccurred) =>
          /\ pc' = "done"
          /\ UNCHANGED <<history, statusHistory>>
          /\ Last(out') = SuccessEnd
    /\ (pc' = "done" /\ history'[1] = SensorData(40, 40, 40)) =>
          (Len(history') = 1 /\ Last(out') = SuccessEnd)

C7_PerfectTerminates == [][C7_PerfectStep]_vars

C7_Witness ==
    /\ pc = "done"
    /\ history = <<SensorData(40, 40, 40)>>
    /\ statusHistory = << <<"Perfectly Parked">> >>
    /\ Last(out) = SuccessEnd

\* C8: a reading with left, center and right all < 0.3 is recorded with the
\* Opposite Movement status, without a checkSafety call, and the session stays
\* running and asks for the next reading.
C8_OverrideStep ==
    (pc = "evaluate" /\ AllBelow30(s)) =>
        /\ history' = Append(history, s)
        /\ Len(statusHistory') = Len(statusHistory) + 1
        /\ Last(statusHistory')[1] = "Opposite Movement"
        /\ ~ret'.called
        /\ pc' = "readLeft"
        /\ ~collisionOccurred'
        /\ CountKind(NewLines, "status") = 0
        /\ CountKind(NewLines, "what") = 0

C9_ContinueStep ==
    (pc = "evaluate" /\ (IsTooClose(ret') \/ IsSafe(ret'))) =>
        /\ history' = Append(history, s)
        /\ statusHistory' = Append(statusHistory, ret'.value)
        /\ CountKind(NewLines, "steer") = 1
        /\ CountKind(NewLines, "move") = 1
        /\ pc' = "readLeft"
        /\ ~collisionOccurred'

C9_GuidanceAndContinue == [][C9_ContinueStep]_vars

C9_Witness ==
    /\ pc = "readLeft"
    /\ step = 2
    /\ IsTooClose([called |-> TRUE, thrown |-> FALSE, value |-> statusHistory[1]])
    /\ statusHistory[2] = <<"SAFE">>
    /\ CountKind(out, "steer") = 2
    /\ CountKind(out, "move") = 2

\* C10: the loop is left only at a step recorded as Perfectly Parked or
\* COLLISION!, and at the first such step: every earlier entry, and every
\* entry of a running session, has another status.
TerminalStatus(str) == str = <<"COLLISION!">> \/ Contains(str, "Perfectly Parked")

C10_StopsOnlyOnTerminalStatus ==
    /\ Stopped => (Len(statusHistory) > 0 /\ TerminalStatus(Last(statusHistory)))
    /\ \A i \in 1..(Len(statusHistory) - 1) : ~TerminalStatus(statusHistory[i])
    /\ Running => \A i \in 1..Len(statusHistory) : ~TerminalStatus(statusHistory[i])

C10_Witness ==
    /\ pc = "done"
    /\ Len(statusHistory) = 2
    /\ statusHistory[1] = <<"SAFE">>
    /\ statusHistory[2] = <<"Perfectly Parked">>

\* C11: once a Perfectly Parked or COLLISION! step is recorded, no input is
\* read and nothing is appended to the history any more: the one step that
\* follows writes the summary (header, one row per entry) and the final
\* message, and nothing follows it.
C11_AfterStopStep ==
    (Len(statusHistory) > 0 /\ TerminalStatus(Last(statusHistory))) =>
        /\ pc = "summary"
        /\ pc' = "done"
        /\ UNCHANGED <<history, statusHistory, s, step, invalid, cin>>
        /\ Len(NewLines) = Len(history) + 2
        /\ NewLines[1].kind = "summary"
        /\ \A k \in 1..Len(history) : NewLines[k + 1].kind = "row"
        /\ Last(NewLines).kind = "final"

C11_NothingAfterStop == [][C11_AfterStopStep]_vars

C11_Witness ==
    /\ pc = "done"
    /\ Len(history) = 2
    /\ collisionOccurred
    /\ out[Len(out) - 1].kind = "row"
    /\ Last(out) = CollisionEnd

\* C12: getDoubleInput returns only valid values: >= 0 with allowZero, > 0
\* without; a line is returned exactly when it is a number that is positive, or
\* zero with allowZero, so negative numbers are rejected in both modes and zero
\* only without allowZero.
C12_ReturnStep ==
    /\ pc' = "gdiReturned" =>
          /\ value' >= 0
          /\ ~allowZeroArg => value' > 0
    /\ (pc = "getDoubleInput" /\ cin # <<>>) =>
          (pc' = "gdiReturned" <=>
              /\ Head(cin).numeric
              /\ \/ Head(cin).value > 0
                 \/ (Head(cin).value = 0 /\ allowZeroArg))

C12_NeverReturnsInvalid == [][C12_ReturnStep]_vars

C12_Witness ==
    /\ pc = "gdiReturned"
    /\ allowZeroArg
    /\ value = 0
    /\ CountKind(out, "invalid") = 2

\* C13: getDoubleInput rejects a line by prompting again and reads on; it
\* returns the first acceptable value of the input, never leaves the loop in
\* another way, and returns whenever the input holds an acceptable value.
AcceptableLine(e) == e.numeric /\ (IF allowZeroArg THEN e.value >= 0 ELSE e.value > 0)

C13_LoopStep ==
    (pc = "getDoubleInput" /\ cin # <<>>) =>
        IF AcceptableLine(Head(cin))
        THEN pc' = "gdiReturned" /\ value' = Head(cin).value /\ cin' = Tail(cin)
        ELSE /\ pc' = "getDoubleInput"
             /\ cin' = Tail(cin)
             /\ CountKind(NewLines, "invalid") = 1

C13_LoopsUntilSuccess ==
    /\ [][C13_LoopStep]_vars
    /\ [](pc \in {"getDoubleInput", "gdiReturned", "promptsForEver"})
    /\ (pc = "getDoubleInput" /\ \E k \in 1..Len(cin) : AcceptableLine(cin[k]))
          ~> (pc = "gdiReturned")

C13_Witness ==
    /\ pc = "gdiReturned"
    /\ ~allowZeroArg
    /\ value = 550
    /\ CountKind(out, "invalid") = 3
    /\ CountKind(out, "prompt") = 4

\* C18: requiredSpace is carLength + 1.0 for parallel parking and
\* carWidth + 0.5 otherwise; carWidth has no influence in the first case and
\* carLength none in the second; requiredSpace(true, 4.5, 1.8) = 5.5 and
\* requiredSpace(false, 4.5, 1.8) = 2.3.
C18_RequiredSpaceFormula ==
    pc = "requiredSpaceReturned" =>
        /\ parallel => required = carLength + 100
        /\ ~parallel => required = carWidth + 50
        /\ (parallel /\ carLength = 450 /\ carWidth = 180) => required = 550
        /\ (~parallel /\ carLength = 450 /\ carWidth = 180) => required = 230

C18_Witness ==
    /\ pc = "requiredSpaceReturned"
    /\ ~parallel
    /\ carLength = 450
    /\ carWidth = 180
    /\ required = 230

(***************************************************************************)
(* findParkingSpace                                                        *)
(***************************************************************************)
\* the sizes findParkingSpace has taken as candidates so far, in order
RECURSIVE SizesIn(_)
SizesIn(lines) ==
    IF lines = <<>> THEN <<>>
    ELSE IF Head(lines).kind \in {"found", "tooSmall"}
         THEN <<Head(lines).nums[1]>> \o SizesIn(Tail(lines))
         ELSE SizesIn(Tail(lines))

\* the sizes the rest of the input would still supply as candidates
RECURSIVE SizesLeft(_)
SizesLeft(lines) ==
    IF lines = <<>> THEN <<>>
    ELSE IF lines[1].numeric /\ lines[1].value >= 0
         THEN <<lines[1].value>> \o SizesLeft(Tail(lines))
         ELSE SizesLeft(Tail(lines))

\* the candidate sizes of the scan: those read and those still in the input
Candidates == SizesIn(out) \o SizesLeft(cin)

\* the space the car needs, by the rule of the two margins
Needed == IF parallel THEN carLength + 100 ELSE carWidth + 50

FirstN == 1..(IF Len(Candidates) < numSpaces THEN Len(Candidates) ELSE numSpaces)

\* C14: for a positive count n, findParkingSpace returns true exactly when one
\* of the first n candidate sizes is at least the required space (a size equal
\* to it counts), and it returns false having read n candidates that are all
\* smaller
C14_TrueIffSomeCandidateFits ==
    (pc = "fpsReturned" /\ numSpaces > 0) =>
        /\ found <=> (\E k \in FirstN : Candidates[k] >= Needed)
        /\ ~found => /\ Len(SizesIn(out)) = numSpaces
                     /\ \A k \in 1..numSpaces : SizesIn(out)[k] < Needed

\* a scan that returned true on a space of exactly the required size
C14_Witness ==
    /\ pc = "fpsReturned"
    /\ numSpaces > 0
    /\ found
    /\ Last(SizesIn(out)) = Needed

\* C15: the scan is first-fit: a candidate that is at least the required space
\* ends the scan with true and nothing is read after it; every candidate read
\* before it was smaller; at most n candidates are read
C15_FirstFitStep ==
    /\ (pc = "readSpace" /\ cin # <<>> /\ Head(cin).numeric
            /\ Head(cin).value >= Needed)
        => (pc' = "fpsReturned" /\ found' /\ cin' = Tail(cin))
    /\ pc = "fpsReturned" => UNCHANGED <<cin, out, found>>
    /\ Len(SizesIn(out')) <= (IF numSpaces' > 0 THEN numSpaces' ELSE 0)
    /\ \A k \in 1..Len(SizesIn(out')) :
          (SizesIn(out')[k] >= Needed) => (k = Len(SizesIn(out')) /\ found')
    /\ found' => (SizesIn(out') # <<>> /\ Last(SizesIn(out')) >= Needed)

C15_FirstFit == [][C15_FirstFitStep]_vars

\* a scan that found its space after a smaller one and left input unread
C15_Witness ==
    /\ pc = "fpsReturned"
    /\ found
    /\ Len(SizesIn(out)) = 2
    /\ Len(SizesIn(out)) < numSpaces
    /\ SizesLeft(cin) # <<>>

\* the scan of the example: three spaces of 6.0, 4.0 and 5.5 m for a car
\* that needs 5.5 m, after findParkingSpace has returned
C16_Example ==
    /\ pc = "fpsReturned"
    /\ numSpaces = 3
    /\ Needed = 550
    /\ Candidates = <<600, 400, 550>>

C17_NoScanStep ==
    (pc = "readCount" /\ cin # <<>> /\ Head(cin).numeric
        /\ IntPart(Head(cin).value) <= 0)
    => /\ pc' = "fpsReturned"
       /\ ~found'
       /\ CountKind(out', "sizePrompt") = 0
       /\ SizesIn(out') = <<>>
       /\ (cin' = Tail(cin) \/ Tail(cin') = Tail(cin))
       /\ UNCHANGED <<value, space, spaceNo>>

C17_NoScanForCountBelowOne == [][C17_NoScanStep]_vars

\* a scan that returned for a negative count with a size still in the input
C17_Witness ==
    /\ pc = "fpsReturned"
    /\ numSpaces < 0
    /\ ~found
    /\ SizesLeft(cin) # <<>>

(***************************************************************************)
(* beepAlert and the steering suggestion                                   *)
(***************************************************************************)
SomeBelow50(r) == r.left < 50 \/ r.center < 50 \/ r.right < 50

SingleBeep == << Line("beep", <<"BEEP!">>) >>
DoubleBeep == << Line("beep", <<"BEEP!", "BEEP!">>) >>

\* the readings with the same three values as r, on any sensors
Rearranged(r) ==
    { SensorData(r.left, r.right, r.center), SensorData(r.center, r.left, r.right),
      SensorData(r.center, r.right, r.left), SensorData(r.right, r.left, r.center),
      SensorData(r.right, r.center, r.left) }

\* C19: beepAlert writes nothing when all three sensors are at least 0.5 m, a
\* single beep when some sensor is below 0.5 m and none below 0.3 m, and a
\* double beep when some sensor is below 0.3 m; a sensor at exactly 0.5 or 0.3
\* does not count as below; which sensor holds which value makes no difference
C19_BeepLevels ==
    pc = "beepAlertReturned" =>
        /\ ~SomeBelow50(s) => out = <<>>
        /\ (SomeBelow50(s) /\ ~SomeBelow30(s)) => out = SingleBeep
        /\ SomeBelow30(s) => out = DoubleBeep
        /\ \A r \in Rearranged(s) : beepAlert(r) = out

\* a reading whose closest sensor is at exactly 0.3 m got the single beep
C19_Witness ==
    /\ pc = "beepAlertReturned"
    /\ s.left = 30
    /\ s.center >= 50
    /\ s.right = 50
    /\ out = SingleBeep

\* the suggestion that the comparison of the two side sensors calls for
SideSuggestion(r) ==
    IF r.left < r.right THEN <<"Steer RIGHT">>
    ELSE IF r.right < r.left THEN <<"Steer LEFT">>
    ELSE <<"Keep centered">>

SteerLines(lines) == SelectSeq(lines, LAMBDA l : l.kind = "steer")

\* C20: a step classified TooClose or Safe writes exactly one steering
\* suggestion: Steer RIGHT when left < right, Steer LEFT when right < left,
\* Keep centered when they are equal; the center value has no influence on it
C20_SteeringStep ==
    (pc = "evaluate" /\ (IsTooClose(ret') \/ IsSafe(ret'))) =>
        /\ SteerLines(NewLines) = << Line("steer", SideSuggestion(s)) >>
        /\ SideSuggestion(s) \in {<<"Steer RIGHT">>, <<"Steer LEFT">>, <<"Keep centered">>}
        /\ \A c \in inputDomain :
              steeringLine([s EXCEPT !.center = c]) = Line("steer", SideSuggestion(s))

C20_SteeringBySidesOnly == [][C20_SteeringStep]_vars

\* a step with equal sides and another center value was told to keep centered
C20_Witness ==
    /\ pc = "readLeft"
    /\ step = 1
    /\ history[1].left = history[1].right
    /\ history[1].center < history[1].left
    /\ statusHistory[1][1] = "TOO CLOSE"
    /\ SteerLines(out) = << Line("steer", <<"Keep centered">>) >>

(***************************************************************************)
(* The history of a session and its summary                                *)
(***************************************************************************)
Rows(lines) == SelectSeq(lines, LAMBDA l : l.kind = "row")

IsPrefix(a, b) == Len(a) <= Len(b) /\ SubSeq(b, 1, Len(a)) = a

\* history and statusHistory have one entry for each reading accepted so far
C21_SameLength ==
    /\ Len(history) = Len(statusHistory)
    /\ Len(history) = step

\* the summary of a finished session: row i is step i, the i-th reading and
\* its status
C21_SummaryRows ==
    pc = "done" =>
        /\ Len(Rows(out)) = Len(history)
        /\ \A i \in 1..Len(history) :
              /\ Rows(out)[i].nums =
                    <<i, history[i].left, history[i].center, history[i].right>>
              /\ Rows(out)[i].text = statusHistory[i]

\* a step that evaluates a reading appends that reading and one status; no
\* step changes, reorders or removes an entry
C21_AppendStep ==
    /\ IsPrefix(history, history')
    /\ IsPrefix(statusHistory, statusHistory')
    /\ IF pc = "evaluate"
       THEN /\ history' = Append(history, s)
            /\ Len(statusHistory') = Len(statusHistory) + 1
       ELSE UNCHANGED <<history, statusHistory>>

\* C21: the two histories always have the same length; every accepted
\* reading adds exactly one entry to both, whatever its path; entries are
\* never changed, reordered or removed; the summary of a terminated session
\* has one row per accepted reading, in order, numbered 1..n
C21_HistoryAppendOnly ==
    /\ [](C21_SameLength /\ C21_SummaryRows)
    /\ [][C21_AppendStep]_vars

\* a summary of two rows: an overridden reading, then the collision
C21_Witness ==
    /\ pc = "done"
    /\ Len(Rows(out)) = 2
    /\ statusHistory[1][1] = "Opposite Movement"
    /\ statusHistory[2] = <<"COLLISION!">>
    /\ Rows(out)[2].nums[1] = 2

FinalLines(lines) == SelectSeq(lines, LAMBDA l : l.kind = "final")

\* C22: a terminated session prints exactly one final message: "ended due to
\* collision" exactly when its last history entry is COLLISION!, "completed
\* successfully" exactly when its last entry is Perfectly Parked; a session
\* that has not terminated has printed neither
C22_FinalMessage ==
    /\ pc = "done" =>
          /\ Len(FinalLines(out)) = 1
          /\ Last(out) = FinalLines(out)[1]
          /\ Last(out) \in {CollisionEnd, SuccessEnd}
          /\ Last(out) = CollisionEnd <=> Last(statusHistory) = <<"COLLISION!">>
          /\ Last(out) = SuccessEnd
                <=> Contains(Last(statusHistory), "Perfectly Parked")
    /\ pc # "done" => FinalLines(out) = <<>>

\* a session of two readings that ended perfectly parked
C22_Witness ==
    /\ pc = "done"
    /\ Len(history) = 2
    /\ Last(statusHistory) = <<"Perfectly Parked">>
    /\ Last(out) = SuccessEnd

(***************************************************************************)
(* The threshold table of checkSafety                                      *)
(***************************************************************************)
AllAbove50(r) == r.left > 50 /\ r.center > 50 /\ r.right > 50

RECURSIVE Joined(_)
Joined(sides) ==
    IF sides = <<>> THEN <<>>
    ELSE IF Len(sides) = 1 THEN sides
    ELSE <<Head(sides), "+">> \o Joined(Tail(sides))

OutcomeOf(l, c, r) ==
    IF l <= 10 \/ c <= 10 \/ r <= 10
    THEN [called |-> TRUE, thrown |-> TRUE,
          value |-> <<"COLLISION! STOP IMMEDIATELY!">>]
    ELSE IF l < 30 \/ c < 30 \/ r < 30
    THEN [called |-> TRUE, thrown |-> FALSE,
          value |-> <<"TOO CLOSE", "(">>
                    \o Joined(SidesBelow30(SensorData(l, c, r))) \o <<")">>]
    ELSE IF l <= 50 /\ c <= 50 /\ r <= 50
    THEN [called |-> TRUE, thrown |-> FALSE, value |-> <<"Perfectly Parked">>]
    ELSE [called |-> TRUE, thrown |-> FALSE, value |-> <<"SAFE">>]

\* the entries of the history that hold a status checkSafety returned
Classified(i) ==
    /\ statusHistory[i][1] # "Opposite Movement"
    /\ statusHistory[i] # <<"COLLISION!">>

\* C26: the outcome of a checkSafety call is determined by the three
\* distances alone: the same status and sides, or the same collision signal,
\* whatever the mode, the parking type and the readings recorded before; a
\* reading classified earlier in the session gets the status it got then
C26_PureStep ==
    (pc = "evaluate" /\ ret'.called) =>
        /\ ret' = OutcomeOf(s.left, s.center, s.right)
        /\ \A i \in 1..Len(history) :
              (history[i] = s /\ Classified(i)) =>
                  (~ret'.thrown /\ ret'.value = statusHistory[i])

classify(r) ==
    IF r.left <= 10 \/ r.center <= 10 \/ r.right <= 10
    THEN [status |-> "Collision", sides |-> <<>>]
    ELSE IF r.left < 30 \/ r.center < 30 \/ r.right < 30
    THEN [status |-> "TooClose", sides |-> SidesBelow30(r)]
    ELSE IF r.left <= 50 /\ r.center <= 50 /\ r.right <= 50
    THEN [status |-> "PerfectlyParked", sides |-> <<>>]
    ELSE [status |-> "Safe", sides |-> <<>>]

\* the label a status value is recorded under
StatusLabel(st) ==
    IF st.status = "Collision" THEN <<"COLLISION!">>
    ELSE IF st.status = "TooClose"
    THEN <<"TOO CLOSE", "(">> \o Joined(st.sides) \o <<")">>
    ELSE IF st.status = "PerfectlyParked" THEN <<"Perfectly Parked">>
    ELSE <<"SAFE">>

OppositeLabel(rev) ==
    IF rev
    THEN <<"Opposite Movement", "REVERSE mode sensors close", "Move FORWARD">>
    ELSE <<"Opposite Movement", "FORWARD mode sensors close", "Move BACKWARD">>

DataStart == [history |-> <<>>, statuses |-> <<>>, state |-> "Running"]

\* one transition of the data-driven session: a stopped session accepts
\* nothing; all three sensors below 0.3 m is the override; otherwise the
\* status value decides between stopping and running on
DataStep(sess, r, rev) ==
    IF sess.state # "Running" THEN sess
    ELSE IF r.left < 30 /\ r.center < 30 /\ r.right < 30
    THEN [history |-> Append(sess.history, r),
          statuses |-> Append(sess.statuses, OppositeLabel(rev)),
          state |-> "Running"]
    ELSE [history |-> Append(sess.history, r),
          statuses |-> Append(sess.statuses, StatusLabel(classify(r))),
          state |-> IF classify(r).status = "Collision" THEN "StoppedCollision"
                    ELSE IF classify(r).status = "PerfectlyParked"
                    THEN "StoppedPerfect"
                    ELSE "Running"]

\* the data-driven session after a sequence of readings
RECURSIVE DataRun(_, _)
DataRun(readings, rev) ==
    IF readings = <<>> THEN DataStart
    ELSE DataStep(DataRun(SubSeq(readings, 1, Len(readings) - 1), rev),
                  Last(readings), rev)

DataFinal(state) == IF state = "StoppedCollision" THEN CollisionEnd ELSE SuccessEnd

\* the state of the session of the source
SessionState ==
    IF Running THEN "Running"
    ELSE IF collisionOccurred THEN "StoppedCollision"
    ELSE "StoppedPerfect"

\* C27: the session of the source, with its throwing checkSafety and its
\* catch block, and the session driven by classify with Collision as a
\* status value agree on every sequence of readings: same history, same
\* statuses, same state, and the same final message once terminated
C27_CollisionAsData ==
    /\ DataRun(history, reverseMode).history = history
    /\ DataRun(history, reverseMode).statuses = statusHistory
    /\ DataRun(history, reverseMode).state = SessionState
    /\ pc = "done" => Last(out) = DataFinal(DataRun(history, reverseMode).state)

\* a session that went on after a too-close reading and ended in a collision
C27_Witness ==
    /\ pc = "done"
    /\ Len(history) = 2
    /\ IsCollision(ret)
    /\ DataRun(history, reverseMode).state = "StoppedCollision"
    /\ DataRun(history, reverseMode).statuses[1][1] = "TOO CLOSE"
    /\ Last(out) = CollisionEnd

(***************************************************************************)
(* The readings of a session                                               *)
(***************************************************************************)
NonNegative(r) == r.left >= 0 /\ r.center >= 0 /\ r.right >= 0

\* C28: every reading in the history has left, center and right >= 0, and so
\* has the reading handed to beepAlert, the override test and checkSafety:
\* an entry that is negative or no number is answered with the error line
\* and never stored
C28_ReadingsNonNegative ==
    /\ \A i \in 1..Len(history) : NonNegative(history[i])
    /\ NonNegative(s)
    /\ pc = "evaluate" => ~invalid

\* a rejected entry in the middle of the second reading of a session
C28_Witness ==
    /\ pc = "readRight"
    /\ invalid
    /\ Len(history) = 1
    /\ NonNegative(history[1])
    /\ s.left = 5
    /\ s.center = 40

(***************************************************************************)
(* Movement suggestions                                                    *)
(***************************************************************************)
OfKind(lines, k) == SelectSeq(lines, LAMBDA l : l.kind = k)

\* C29: a TooClose or Safe step suggests Move BACKWARD in reverse mode and
\* Move FORWARD otherwise; an override step names the opposite direction
\* (Move BACKWARD in forward mode, Move FORWARD in reverse mode) and writes
\* neither a steering nor a regular movement suggestion
C29_MovementStep ==
    /\ (pc = "evaluate" /\ (IsTooClose(ret') \/ IsSafe(ret'))) =>
          /\ OfKind(NewLines, "move") =
                << Line("move", IF reverseMode THEN <<"Move BACKWARD">>
                                ELSE <<"Move FORWARD">>) >>
          /\ OfKind(NewLines, "opposite") = <<>>
    /\ (pc = "evaluate" /\ AllBelow30(s)) =>
          /\ Len(OfKind(NewLines, "opposite")) = 1
          /\ Contains(OfKind(NewLines, "opposite")[1].text,
                      IF reverseMode THEN "Move FORWARD" ELSE "Move BACKWARD")
          /\ ~Contains(OfKind(NewLines, "opposite")[1].text,
                       IF reverseMode THEN "Move BACKWARD" ELSE "Move FORWARD")
          /\ Contains(Last(statusHistory'),
                      IF reverseMode THEN "Move FORWARD" ELSE "Move BACKWARD")
          /\ OfKind(NewLines, "steer") = <<>>
          /\ OfKind(NewLines, "move") = <<>>

C29_MovementByMode == [][C29_MovementStep]_vars

\* a reverse-mode session after an override step and a too-close step
C29_Witness ==
    /\ reverseMode
    /\ pc = "readLeft"
    /\ Len(history) = 2
    /\ AllBelow30(history[1])
    /\ Contains(statusHistory[1], "Move FORWARD")
    /\ statusHistory[2][1] = "TOO CLOSE"
    /\ OfKind(out, "move") = << Line("move", <<"Move BACKWARD">>) >>
    /\ Len(OfKind(out, "steer")) = 1

(***************************************************************************)
(* The output of one step                                                  *)
(***************************************************************************)
BeepOf(r) ==
    IF SomeBelow30(r) THEN DoubleBeep
    ELSE IF SomeBelow50(r) THEN SingleBeep
    ELSE <<>>

Kinds(lines) == [i \in 1..Len(lines) |-> lines[i].kind]

\* the lines a step writes after its beep
AfterBeep(r) == SubSeq(NewLines, Len(BeepOf(r)) + 1, Len(NewLines))

\* C30: every accepted reading, the one that ends the session included, gets
\* its beep first; then comes either the Opposite Movement message, or the
\* status followed by the steering and the movement suggestion (the status
\* alone on the step that ends the session); no other step beeps
C30_OutputOrderStep ==
    IF pc = "evaluate"
    THEN /\ IsPrefix(BeepOf(s), NewLines)
         /\ OfKind(AfterBeep(s), "beep") = <<>>
         /\ Kinds(AfterBeep(s)) =
               IF AllBelow30(s) THEN <<"opposite">>
               ELSE IF IsCollision(ret') THEN <<"what">>
               ELSE IF IsPerfect(ret') THEN <<"status">>
               ELSE <<"status", "steer", "move", "separator">>
    ELSE OfKind(NewLines, "beep") = <<>>

C30_BeepFirst == [][C30_OutputOrderStep]_vars

\* a session that beeped once for a too-close reading and twice for the
\* reading that ended it
C30_Witness ==
    /\ pc = "summary"
    /\ collisionOccurred
    /\ Len(history) = 2
    /\ OfKind(out, "beep") = SingleBeep \o DoubleBeep
    /\ Kinds(out) = <<"rules", "beep", "status", "steer", "move", "separator",
                      "beep", "what">>

(***************************************************************************)
(* main                                                                    *)
(***************************************************************************)
SessionPcs == {"readLeft", "readCenter", "readRight", "evaluate", "summary", "done"}

\* parkingAssistantLoop was entered: it has printed its rules
LoopStarted == CountKind(out, "rules") > 0

\* findParkingSpace has returned false
ScanFailed == pc \in {"fpsReturned", "exited"} /\ ~found

\* no sensor has been asked for
NoReadingRequested ==
    /\ pc \notin SessionPcs
    /\ ~LoopStarted
    /\ s = SensorData(0, 0, 0)
    /\ step = 0
    /\ history = <<>>

C23_Gate ==
    /\ (LoopStarted \/ pc \in SessionPcs) =>
          (found /\ CountKind(out, "found") = 1 /\ numSpaces > 0)
    /\ ScanFailed => NoReadingRequested
    /\ (CountKind(out, "noSpace") > 0 \/ CountKind(out, "negativeCount") > 0)
          => NoReadingRequested

C23_GateStep ==
    /\ (pc = "fpsReturned" /\ found) =>
          (pc' = "readLeft" /\ LoopStarted' /\ exitCode' = <<>>)
    /\ (pc = "fpsReturned" /\ ~found) =>
          (pc' = "exited" /\ exitCode' = <<0>> /\ UNCHANGED out)
    /\ pc = "exited" => UNCHANGED vars

\* C23: main starts parkingAssistantLoop exactly when findParkingSpace
\* returned true; when it returned false, for want of a fitting space or for
\* a count of zero or below, no sensor reading is ever asked for and main
\* returns
C23_ScanGatesSession == [](C23_Gate) /\ [][C23_GateStep]_vars

\* main has returned after a scan of two spaces that were both too small
C23_Witness ==
    /\ pc = "exited"
    /\ ~found
    /\ numSpaces = 2
    /\ CountKind(out, "tooSmall") = 2
    /\ NoReadingRequested

\* main caught an exception: it has printed the error
Caught == CountKind(out, "error") > 0

\* C24: main returns 1 when it caught an exception and 0 on normal
\* completion, which includes a session ended by a collision and a scan that
\* found no space
C24_ExitCodeOneOnError ==
    pc = "exited" =>
        /\ Caught => exitCode = <<1>>
        /\ ~Caught => exitCode = <<0>>

(***************************************************************************)
(* The exception of checkSafety inside the loop                            *)
(***************************************************************************)
\* C31: when checkSafety throws, the exception is caught in the same
\* iteration and parkingAssistantLoop goes on to its summary; the Status
\* line and the pushes of the try block are skipped, and the handler appends
\* exactly one entry, the reading with the status COLLISION!
C31_CaughtStep ==
    (pc = "evaluate" /\ ret'.thrown) =>
        /\ pc' = "summary"
        /\ exitCode' = <<>>
        /\ OfKind(NewLines, "status") = <<>>
        /\ OfKind(NewLines, "what") = << Line("what", ret'.value) >>
        /\ history' = Append(history, s)
        /\ statusHistory' = Append(statusHistory, <<"COLLISION!">>)
        /\ Last(statusHistory') # ret'.value
        /\ collisionOccurred'

C31_ExceptionCaughtInLoop == [][C31_CaughtStep]_vars

\* a collision at the second reading, recorded once
C31_Witness ==
    /\ pc = "summary"
    /\ ret.thrown
    /\ Len(history) = 2
    /\ statusHistory[2] = <<"COLLISION!">>
    /\ statusHistory[1] # <<"COLLISION!">>
    /\ CountKind(out, "what") = 1

(***************************************************************************)
(* The statuses of a history                                               *)
(***************************************************************************)
\* the kind of a recorded status
StatusKind(str) ==
    IF str = <<"COLLISION!">> THEN "Collision"
    ELSE IF str = <<"Perfectly Parked">> THEN "PerfectlyParked"
    ELSE IF str = <<"SAFE">> THEN "Safe"
    ELSE IF str # <<>> /\ str[1] = "TOO CLOSE" THEN "TooClose"
    ELSE IF str # <<>> /\ str[1] = "Opposite Movement" THEN "OppositeMovement"
    ELSE "other"

\* C32: in a history only the last entry can hold a terminal status: every
\* entry before the last is Safe, TooClose or Opposite Movement, and so is
\* every entry while the loop runs; the last entry of a session that has
\* stopped is Perfectly Parked or COLLISION!; collisionOccurred is false as
\* long as the loop runs
C32_TerminalStatusLast ==
    /\ \A i \in 1..(Len(statusHistory) - 1) :
          StatusKind(statusHistory[i]) \in {"Safe", "TooClose", "OppositeMovement"}
    /\ Running =>
          /\ ~collisionOccurred
          /\ \A i \in 1..Len(statusHistory) :
                StatusKind(statusHistory[i]) \in {"Safe", "TooClose", "OppositeMovement"}
    /\ Stopped =>
          /\ statusHistory # <<>>
          /\ StatusKind(Last(statusHistory)) \in {"PerfectlyParked", "Collision"}
          /\ collisionOccurred <=> StatusKind(Last(statusHistory)) = "Collision"

\* a running session whose two entries are an override and a safe reading
C32_Witness ==
    /\ pc = "readLeft"
    /\ Len(statusHistory) = 2
    /\ StatusKind(statusHistory[1]) = "OppositeMovement"
    /\ StatusKind(statusHistory[2]) = "Safe"
    /\ ~collisionOccurred

\* C33: no TooClose status of the history names all three sides, because a
\* reading with all three sensors below 0.3 is taken by the opposite-movement
\* branch before checkSafety: every TooClose entry names one or two sides,
\* its reading has at least one sensor >= 0.3, and each side it names is
\* strictly between 0.1 and 0.3
C33_TooCloseNeverAllSides ==
    \A i \in 1..Len(statusHistory) :
        StatusKind(statusHistory[i]) = "TooClose" =>
            /\ Len(history) >= i
            /\ Len(NamedSides(statusHistory[i])) \in {1, 2}
            /\ NamedSides(statusHistory[i]) # <<"LEFT", "CENTER", "RIGHT">>
            /\ \E side \in {"LEFT", "CENTER", "RIGHT"} :
                  SideDistance(history[i], side) >= 30
            /\ \A k \in 1..Len(NamedSides(statusHistory[i])) :
                  /\ SideDistance(history[i], NamedSides(statusHistory[i])[k]) > 10
                  /\ SideDistance(history[i], NamedSides(statusHistory[i])[k]) < 30

\* a TooClose entry naming two sides, after an all-close reading that was
\* recorded as Opposite Movement
C33_Witness ==
    /\ Len(statusHistory) = 2
    /\ history[1] = SensorData(20, 20, 20)
    /\ StatusKind(statusHistory[1]) = "OppositeMovement"
    /\ history[2] = SensorData(20, 30, 20)
    /\ statusHistory[2] = <<"TOO CLOSE", "(", "LEFT", "+", "RIGHT", ")">>

\* C34: the beep of a step agrees with the status the step records: a step
\* recorded as COLLISION!, TooClose or Opposite Movement writes a double beep
\* before anything else; a step recorded as Safe or Perfectly Parked writes
\* no double beep: a single beep first if some sensor is below 0.5, and no
\* beep at all otherwise
C34_BeepStep ==
    pc = "evaluate" =>
        /\ Len(statusHistory') = Len(statusHistory) + 1
        /\ Last(history') = s
        /\ StatusKind(Last(statusHistory')) # "other"
        /\ StatusKind(Last(statusHistory'))
               \in {"Collision", "TooClose", "OppositeMovement"} =>
               /\ OfKind(NewLines, "beep") = DoubleBeep
               /\ SubSeq(NewLines, 1, 1) = DoubleBeep
        /\ (/\ StatusKind(Last(statusHistory')) \in {"Safe", "PerfectlyParked"}
            /\ SomeBelow50(s)) =>
               /\ OfKind(NewLines, "beep") = SingleBeep
               /\ SubSeq(NewLines, 1, 1) = SingleBeep
        /\ (/\ StatusKind(Last(statusHistory')) \in {"Safe", "PerfectlyParked"}
            /\ ~SomeBelow50(s)) =>
               OfKind(NewLines, "beep") = <<>>

C34_BeepAgreesWithStatus == [][C34_BeepStep]_vars

\* a session with a double beep for a TooClose step naming the center only,
\* then a single beep for the step that parks
C34_Witness ==
    /\ pc = "summary"
    /\ history = << SensorData(60, 20, 60), SensorData(30, 30, 30) >>
    /\ StatusKind(statusHistory[1]) = "TooClose"
    /\ StatusKind(statusHistory[2]) = "PerfectlyParked"
    /\ OfKind(out, "beep") = DoubleBeep \o SingleBeep

(***************************************************************************)
(* The session and its configuration                                       *)
(***************************************************************************)
\* the words of the output that name a direction
DirectionLabels ==
    {"FORWARD mode sensors close", "REVERSE mode sensors close",
     "Move FORWARD", "Move BACKWARD"}

WithoutLabels(line) ==
    [line EXCEPT !.text = SelectSeq(@, LAMBDA tok : tok \notin DirectionLabels)]

LabelFree(lines) == [i \in 1..Len(lines) |-> WithoutLabels(lines[i])]

\* what the step of one reading writes, direction labels left out, as the
\* reading alone determines it
StepLines(r) ==
    BeepOf(r) \o
    (IF AllBelow30(r)
     THEN << Line("opposite", <<"Opposite Movement", "and re-enter data.">>) >>
     ELSE IF classify(r).status = "Collision"
     THEN << Line("what", <<"COLLISION! STOP IMMEDIATELY!">>) >>
     ELSE IF classify(r).status = "PerfectlyParked"
     THEN << Line("status", StatusLabel(classify(r))) >>
     ELSE << Line("status", StatusLabel(classify(r))),
             Line("steer", SideSuggestion(r)),
             Line("move", <<>>),
             Line("separator", <<>>) >>)

RECURSIVE RunLines(_)
RunLines(readings) ==
    IF readings = <<>> THEN <<>>
    ELSE StepLines(Head(readings)) \o RunLines(Tail(readings))

\* the summary of a session, direction labels left out
SummaryLines(sess) ==
    << Line("summary", <<"Parking Summary:">>) >>
    \o LabelFree([i \in 1..Len(sess.history) |->
                     Row(i, sess.history[i], sess.statuses[i])])
    \o << DataFinal(sess.state) >>

\* the session on the same readings with the other mode
OtherMode == DataRun(history, ~reverseMode)

\* C35: the control flow of the session does not depend on its configuration:
\* on the readings of this session, the session with the other mode accepts
\* as many readings, is in the same state (running, stopped by a collision,
\* stopped parked) and records the same status kind at every step; the two
\* differ only in the direction labels of the opposite-movement and movement
\* texts, which the mode alone fixes; parallel has no influence on anything
\* the session records or writes
C35_ConfigurationIndependent ==
    LET other == OtherMode
        plain == LabelFree(out)
    IN  /\ other.history = history
        /\ other.state = SessionState
        /\ Len(other.statuses) = Len(statusHistory)
        /\ \A i \in 1..Len(statusHistory) :
              /\ StatusKind(other.statuses[i]) = StatusKind(statusHistory[i])
              /\ other.statuses[i] # statusHistory[i] =>
                    /\ StatusKind(statusHistory[i]) = "OppositeMovement"
                    /\ statusHistory[i] = OppositeLabel(reverseMode)
                    /\ other.statuses[i] = OppositeLabel(~reverseMode)
        /\ plain =
              << Line("rules", <<"Collision <= 0.10 m (STOP immediately)">>) >>
              \o RunLines(history)
              \o (IF pc = "done" THEN SummaryLines(other) ELSE <<>>)
        /\ \A i \in 1..Len(out) :
              /\ out[i].kind = "move" =>
                    out[i].text = << IF reverseMode THEN "Move BACKWARD"
                                     ELSE "Move FORWARD" >>
              /\ out[i].kind = "opposite" =>
                    out[i].text = OppositeLabel(reverseMode) \o <<"and re-enter data.">>
              /\ out[i].kind \notin {"move", "opposite", "row"} =>
                    plain[i] = out[i]

\* a finished parallel session in reverse mode: an all-close reading recorded
\* as Opposite Movement with the labels of that mode, then the reading that
\* parks
C35_Witness ==
    /\ pc = "done"
    /\ reverseMode
    /\ parallel
    /\ history = << SensorData(20, 20, 20), SensorData(30, 30, 30) >>
    /\ statusHistory[1] = OppositeLabel(TRUE)
    /\ OtherMode.statuses[1] = OppositeLabel(FALSE)
    /\ OtherMode.state = "StoppedPerfect"

====
